---- MODULE Spec2Model ----
(***************************************************************************)
(* Model of online_status: the heartbeat handler and the status handler   *)
(* of the server (src/src/server.rs, duplicated in src/src/main.rs) and    *)
(* the emitter loop of the client (src/src/client.rs).                     *)
(*                                                                         *)
(* Time is in seconds.  u64 arithmetic is modelled with a reduced word     *)
(* (U64_MODULUS) because TLC's integers are 32 bits wide; additions and    *)
(* subtractions that leave the word either panic (a build with overflow    *)
(* checks, cargo's dev profile) or wrap (the release profile).             *)
(***************************************************************************)
EXTENDS Integers, Sequences, FiniteSets, TLC

\* ------------------------------------------------------------ constants
TIMEOUT == 5
HEARTBEAT_INTERVAL == 60
OFFLINE_TIMEOUT == 300
ZOMBIE_TIMEOUT == 3600

\* ------------------------------------------------------------ bounds and inputs
\* The reduced width of a u64 word: values are 0 .. U64_MODULUS - 1.
U64_MODULUS == 65536
\* The clock reading at which the model starts.
Epoch0 == 4000

\* The instants at which the server's clock is read: the start, and one
\* second, OFFLINE_TIMEOUT + 1 and ZOMBIE_TIMEOUT + 1 seconds after it, so
\* that two readings differ by 1, 300, 301, 3300, 3600 or 3601 seconds.
Instants ==
    {Epoch0, Epoch0 + 1, Epoch0 + OFFLINE_TIMEOUT + 1, Epoch0 + ZOMBIE_TIMEOUT + 1}

\* The heartbeat handler tasks that run at the same time.
Handlers == {1, 2}
IPs == {"ip1", "ip2"}
\* The key pair of the deployment and an unrelated one.
Keys == {"k1", "k2"}

VARIABLES
    clock,            \* SystemTime::now() as seconds since the epoch
    ticks,            \* how many times the emitter's clock advanced
    overflow_checks,  \* the build: TRUE panics on overflow, FALSE wraps
    public_key,       \* AppState.public_key: "none" or a key
    clients,          \* AppState.clients: a set of [identity, last_seen]
    poisoned,         \* the registry Mutex was poisoned by a panic
    hb,               \* the heartbeat handler tasks
    st,               \* the status handler task
    reply,            \* the response a handler has just written
    cl                \* the emitter: client_main's loop

vars == <<clock, ticks, overflow_checks, public_key, clients, poisoned, hb, st,
          reply, cl>>

\* ------------------------------------------------------------ u64
\* a - b on u64: [panic, val].
U64Sub(a, b) ==
    IF a >= b THEN [panic |-> FALSE, val |-> a - b]
    ELSE IF overflow_checks THEN [panic |-> TRUE, val |-> 0]
    ELSE [panic |-> FALSE, val |-> U64_MODULUS - (b - a)]

\* a + b on u64: [panic, val].
U64Add(a, b) ==
    IF a + b < U64_MODULUS THEN [panic |-> FALSE, val |-> a + b]
    ELSE IF overflow_checks THEN [panic |-> TRUE, val |-> 0]
    ELSE [panic |-> FALSE, val |-> (a + b) - U64_MODULUS]

\* ------------------------------------------------------------ codecs
\* Strings are sequences of character codes.  In a hex string the codes
\* 0..15 are the hex digits and NonHexChar is any other character.
NonHexChar == 16

RECURSIVE Digits(_)
\* u64::to_string: the decimal digits of n, most significant first.
Digits(n) == IF n < 10 THEN <<n>> ELSE Append(Digits(n \div 10), n % 10)

\* String::into_bytes of a decimal string: the ASCII codes of its digits.
ToStringBytes(n) == [i \in 1..Len(Digits(n)) |-> 48 + Digits(n)[i]]

\* hex::encode with the nibbles of every byte in the wrong order.
HexEncodeLowFirst(bytes) ==
    [i \in 1..(2 * Len(bytes)) |->
        IF i % 2 = 1 THEN bytes[(i + 1) \div 2] % 16
                     ELSE bytes[i \div 2] \div 16]

\* hex::encode: two hex digits per byte, high nibble first.
HexEncode(bytes) ==
    [i \in 1..(2 * Len(bytes)) |->
        IF i % 2 = 1 THEN bytes[(i + 1) \div 2] \div 16
                     ELSE bytes[i \div 2] % 16]

\* hex::decode: [ok, bytes]; an odd length or a non-hex character is an error.
HexDecode(s) ==
    IF Len(s) % 2 = 1 \/ (\E i \in 1..Len(s) : s[i] \notin 0..15)
    THEN [ok |-> FALSE, bytes |-> <<>>]
    ELSE [ok |-> TRUE,
          bytes |-> [i \in 1..(Len(s) \div 2) |-> 16 * s[2 * i - 1] + s[2 * i]]]

\* ------------------------------------------------------------ signatures
\* The pgp crate as an ideal signature scheme: a signature is two MPIs
\* that determine the signing key and the signed bytes.
KeyByte(k) == IF k = "k1" THEN 17 ELSE 34

\* SecretKeyTrait::create_signature(key, data): the MPIs as byte strings.
CreateSignature(key, data) == << <<KeyByte(key)>>, data >>

\* PublicKeyTrait::verify_signature(public_key, data, mpis):
\* "Ok", "SignatureError" (a forged signature) or "OtherError" (a
\* signature that does not have the structure of one).
VerifySignature(key, data, mpis) ==
    IF Len(mpis) # 2 \/ (\E i \in 1..Len(mpis) : Len(mpis[i]) = 0) THEN "OtherError"
    ELSE IF mpis = CreateSignature(key, data) THEN "Ok"
    ELSE "SignatureError"

\* HeartBeat.signature as the client builds it: hex::encode of every MPI.
EncodeSignature(mpis) == [i \in 1..Len(mpis) |-> HexEncode(mpis[i])]

\* ------------------------------------------------------------ requests
\* Option<Vec<String>>: None, or Some(the hex strings).
NoSignature == [some |-> FALSE, hex |-> << >>]
Some(hexes) == [some |-> TRUE, hex |-> hexes]

\* HeartBeat { timestamp, signature }
HeartBeat(ts, sig) == [timestamp |-> ts, signature |-> sig]

\* The HeartBeat the emitter builds at time ts (client.rs lines 44-59):
\* the signature of the decimal timestamp, every MPI hex encoded, or no
\* signature without a private key.
ClientHeartBeat(privkey, ts) ==
    HeartBeat(ts, IF privkey = "none" THEN NoSignature
                  ELSE Some(EncodeSignature(CreateSignature(privkey, ToStringBytes(ts)))))

\* The signature fields a request may carry for timestamp ts.
SignatureFields(ts) ==
    { NoSignature,
      ClientHeartBeat("k1", ts).signature,       \* genuine
      ClientHeartBeat("k2", ts).signature,       \* signed with an unrelated key
      ClientHeartBeat("k1", ts + 1).signature,   \* signed for another timestamp
      Some(<< <<1, NonHexChar>>, <<3, 4>> >>),   \* not hex
      Some(<< <<1, 1, 1>>, <<3, 4>> >>),         \* a hex string of odd length
      Some(<< <<1, 1>> >>),                      \* one MPI only
      Some(<< >>) }                              \* no MPI

\* The timestamps a request may carry when the clock reads c.
Timestamps(c) == {c - (TIMEOUT + 1), c - TIMEOUT, c, c + 1}

\* ------------------------------------------------------------ registry
\* An insert that keeps the record it should replace.
InsertKeepOld(reg, ip, now) == reg \cup {[identity |-> ip, last_seen |-> now]}

\* HashMap::insert(ip, now): the record of ip is replaced.
Insert(reg, ip, now) ==
    {r \in reg : r.identity # ip} \cup {[identity |-> ip, last_seen |-> now]}

\* The scan with > for >=.
FreshStrict(reg, now) ==
    {r \in reg : LET s == U64Add(r.last_seen, OFFLINE_TIMEOUT)
                IN  ~s.panic /\ s.val > now}

\* The scan with the window of the request timeout.
FreshTimeout(reg, now) ==
    {r \in reg : LET s == U64Add(r.last_seen, TIMEOUT)
                IN  ~s.panic /\ s.val >= now}

\* The records the scan of status() finds fresh.
Fresh(reg, now) ==
    {r \in reg : LET s == U64Add(r.last_seen, OFFLINE_TIMEOUT)
                IN  ~s.panic /\ s.val >= now}

\* The records on which the scan's addition overflows with a panic.
ScanPanics(reg) == {r \in reg : U64Add(r.last_seen, OFFLINE_TIMEOUT).panic}

\* The records on which the subtraction of retain() panics.
RetainPanics(reg, now) == {r \in reg : U64Sub(now, r.last_seen).panic}

\* retain() with < for <=.
RetainStrict(reg, now) == {r \in reg : U64Sub(now, r.last_seen).val < ZOMBIE_TIMEOUT}

\* A pruning that stops at the first record it removes.
RetainOne(reg, now) ==
    LET old == {r \in reg : U64Sub(now, r.last_seen).val > ZOMBIE_TIMEOUT}
    IN  IF old = {} THEN reg ELSE reg \ {CHOOSE r \in old : TRUE}

\* retain() with the window of the scan.
RetainOfflineWindow(reg, now) ==
    {r \in reg : U64Sub(now, r.last_seen).val <= OFFLINE_TIMEOUT}

\* HashMap::retain(|_, last_seen| now - *last_seen <= ZOMBIE_TIMEOUT)
Retain(reg, now) == {r \in reg : U64Sub(now, r.last_seen).val <= ZOMBIE_TIMEOUT}

\* status() with the pruning's subtraction made before the scan.
StatusOutcomesPrunesFirst(reg, now) ==
    IF RetainPanics(reg, now) # {} THEN {"panic"}
    ELSE IF Fresh(reg, now) # {} THEN {"ONLINE"}
    ELSE {"OFFLINE"}

\* What status() can return: the HashMap is scanned in an arbitrary order.
StatusOutcomes(reg, now) ==
    (IF Fresh(reg, now) # {} THEN {"ONLINE"} ELSE {})
    \cup (IF ScanPanics(reg) # {} THEN {"panic"} ELSE {})
    \cup (IF Fresh(reg, now) = {} /\ ScanPanics(reg) = {}
          THEN (IF RetainPanics(reg, now) # {} THEN {"panic"} ELSE {"OFFLINE"})
          ELSE {})

\* ------------------------------------------------------------ heartbeat
\* The signature stage with every verification error answered 400.
VerifyStageAllBadRequest(info) ==
    IF public_key = "none" THEN "pass"
    ELSE IF ~info.signature.some THEN "401"
    ELSE IF \E i \in 1..Len(info.signature.hex) : ~HexDecode(info.signature.hex[i]).ok
         THEN "panic"
    ELSE LET mpis == [i \in 1..Len(info.signature.hex) |->
                        HexDecode(info.signature.hex[i]).bytes]
             v == VerifySignature(public_key, ToStringBytes(info.timestamp), mpis)
         IN  IF v = "Ok" THEN "pass" ELSE "400"

\* The signature stage decoding the signature before it looks for a key.
VerifyStageDecodesFirst(info) ==
    IF info.signature.some
       /\ \E i \in 1..Len(info.signature.hex) : ~HexDecode(info.signature.hex[i]).ok
    THEN "panic"
    ELSE IF public_key = "none" THEN "pass"
    ELSE IF ~info.signature.some THEN "401"
    ELSE LET mpis == [i \in 1..Len(info.signature.hex) |->
                        HexDecode(info.signature.hex[i]).bytes]
             v == VerifySignature(public_key, ToStringBytes(info.timestamp), mpis)
         IN  IF v = "Ok" THEN "pass"
             ELSE IF v = "SignatureError" THEN "401"
             ELSE "400"

\* Lines 110-129 of heartbeat(): "pass", "401", "400" or "panic".
VerifyStage(info) ==
    IF public_key = "none" THEN "pass"
    ELSE IF ~info.signature.some THEN "401"
    ELSE IF \E i \in 1..Len(info.signature.hex) : ~HexDecode(info.signature.hex[i]).ok
         THEN "panic"
    ELSE LET mpis == [i \in 1..Len(info.signature.hex) |->
                        HexDecode(info.signature.hex[i]).bytes]
             v == VerifySignature(public_key, ToStringBytes(info.timestamp), mpis)
         IN  IF v = "Ok" THEN "pass"
             ELSE IF v = "SignatureError" THEN "401"
             ELSE "400"

\* The freshness check one second too lenient.
FreshStageLenient(now, ts) ==
    LET d == U64Sub(now, ts)
    IN  IF d.panic THEN "panic"
        ELSE IF d.val > TIMEOUT + 1 THEN "400"
        ELSE "pass"

\* Lines 135-137 of heartbeat(): "pass", "400" or "panic".
FreshStage(now, ts) ==
    LET d == U64Sub(now, ts)
    IN  IF d.panic THEN "panic"
        ELSE IF d.val > TIMEOUT THEN "400"
        ELSE "pass"

\* A handler between requests.  Past the checks heartbeat() uses only the
\* caller's address and its clock reading.
IdleHandler == [pc |-> "idle", addr |-> "none", now |-> 0]

NoInfo == HeartBeat(0, NoSignature)

\* What a handler writes to its connection.  A handler that panicked
\* writes nothing and the connection is closed: status "panic".
NoReply ==
    [kind |-> "none", addr |-> "none", info |-> NoInfo,
     now |-> 0, status |-> "none", body |-> "", prev |-> -1]

HeartbeatReply(addr, info, now, status, body, prev) ==
    [kind |-> "heartbeat", addr |-> addr, info |-> info, now |-> now,
     status |-> status, body |-> body, prev |-> prev]

StatusReply(now, status, body) ==
    [kind |-> "status", addr |-> "none", info |-> NoInfo,
     now |-> now, status |-> status, body |-> body, prev |-> -1]

\* What HashMap::insert(ip, _) returns: the value it replaced, -1 for None.
Replaced(reg, ip) ==
    IF \E r \in reg : r.identity = ip
    THEN (CHOOSE r \in reg : r.identity = ip).last_seen
    ELSE -1

\* The handler recording the caller before it checks the freshness.
HeartbeatCheckRecordsStale(h, addr, info) ==
    /\ reply = NoReply
    /\ hb[h].pc = "idle"
    /\ LET v == VerifyStage(info)
           f == FreshStage(clock, info.timestamp)
       IN  IF v # "pass"
           THEN /\ reply' = HeartbeatReply(addr, info, 0, v, "", -1)
                /\ UNCHANGED <<hb, clients>>
           ELSE IF f # "pass"
           THEN /\ reply' = HeartbeatReply(addr, info, clock, f, "", -1)
                /\ clients' = Insert(clients, addr, clock)
                /\ UNCHANGED hb
           ELSE /\ hb' = [hb EXCEPT ![h] = [pc |-> "lock", addr |-> addr,
                                            now |-> clock]]
                /\ UNCHANGED <<reply, clients>>
    /\ UNCHANGED <<clock, ticks, overflow_checks, public_key, poisoned, st, cl>>

\* A request arrives and heartbeat() runs up to the registry lock
\* (lines 105-137).
HeartbeatCheck(h, addr, info) ==
    /\ reply = NoReply
    /\ hb[h].pc = "idle"
    /\ LET v == VerifyStage(info)
           f == FreshStage(clock, info.timestamp)
       IN  IF v # "pass"
           THEN /\ reply' = HeartbeatReply(addr, info, 0, v, "", -1)
                /\ UNCHANGED hb
           ELSE IF f # "pass"
           THEN /\ reply' = HeartbeatReply(addr, info, clock, f, "", -1)
                /\ UNCHANGED hb
           ELSE /\ hb' = [hb EXCEPT ![h] = [pc |-> "lock", addr |-> addr,
                                            now |-> clock]]
                /\ UNCHANGED reply
    /\ UNCHANGED <<clock, ticks, overflow_checks, public_key, clients, poisoned, st, cl>>

\* heartbeat() takes the lock, inserts and answers (lines 139-141).
HeartbeatRecord(h) ==
    /\ reply = NoReply
    /\ hb[h].pc = "lock"
    /\ hb' = [hb EXCEPT ![h] = IdleHandler]
    /\ IF poisoned
       THEN /\ reply' = HeartbeatReply(hb[h].addr, NoInfo, hb[h].now,
                                       "panic", "", -1)
            /\ UNCHANGED clients
       ELSE /\ clients' = Insert(clients, hb[h].addr, hb[h].now)
            /\ reply' = HeartbeatReply(hb[h].addr, NoInfo, hb[h].now,
                                       "200", "Heartbeat received",
                                       Replaced(clients, hb[h].addr))
    /\ UNCHANGED <<clock, ticks, overflow_checks, public_key, poisoned, st, cl>>

\* ------------------------------------------------------------ status
\* status() reads the clock (lines 145-148).
StatusReadClock ==
    /\ reply = NoReply
    /\ st.pc = "idle"
    /\ st' = [pc |-> "lock", now |-> clock]
    /\ UNCHANGED <<clock, ticks, overflow_checks, public_key, clients, poisoned,
                   hb, reply, cl>>

\* status() pruning before it scans, on every path.
StatusScanPrunesAlways ==
    /\ reply = NoReply
    /\ st.pc = "lock"
    /\ st' = [pc |-> "idle", now |-> 0]
    /\ IF poisoned
       THEN /\ reply' = StatusReply(st.now, "panic", "")
            /\ UNCHANGED <<clients, poisoned>>
       ELSE \E out \in StatusOutcomes(clients, st.now) :
            /\ reply' = IF out = "panic" THEN StatusReply(st.now, "panic", "")
                        ELSE StatusReply(st.now, "200", out)
            /\ poisoned' = (out = "panic")
            /\ clients' = IF out = "panic" THEN clients
                          ELSE Retain(clients, st.now)
    /\ UNCHANGED <<clock, ticks, overflow_checks, public_key, hb, cl>>

\* status() takes the lock, scans, prunes and answers (lines 149-156).
StatusScan ==
    /\ reply = NoReply
    /\ st.pc = "lock"
    /\ st' = [pc |-> "idle", now |-> 0]
    /\ IF poisoned
       THEN /\ reply' = StatusReply(st.now, "panic", "")
            /\ UNCHANGED <<clients, poisoned>>
       ELSE \E out \in StatusOutcomes(clients, st.now) :
            /\ reply' = IF out = "panic" THEN StatusReply(st.now, "panic", "")
                        ELSE StatusReply(st.now, "200", out)
            /\ poisoned' = (out = "panic")
            /\ clients' = IF out = "OFFLINE" THEN Retain(clients, st.now)
                          ELSE clients
    /\ UNCHANGED <<clock, ticks, overflow_checks, public_key, hb, cl>>

\* The reply leaves the server.  No handler reads it, so this step
\* commutes with every other one and is taken first.
Deliver ==
    /\ reply # NoReply
    /\ reply' = NoReply
    /\ UNCHANGED <<clock, ticks, overflow_checks, public_key, clients, poisoned,
                   hb, st, cl>>

\* ------------------------------------------------------------ clock
\* The clock advances to a later instant.
Tick(t) ==
    /\ reply = NoReply
    /\ t > clock
    /\ clock' = t
    /\ UNCHANGED <<ticks, overflow_checks, public_key, clients, poisoned, hb, st,
                   reply, cl>>

\* ------------------------------------------------------------ emitter
\* How many times the clock advances in a behaviour of the emitter.
MaxClientTicks == 4

\* The amounts by which the clock advances while the emitter runs.
ClientTickSteps == {1, TIMEOUT, HEARTBEAT_INTERVAL}

\* client_main's state at the head of its loop (line 31): the private key
\* it loaded, whether the build is the Windows one, and where it stands.
ClientStart(privkey, windows) ==
    [pc |-> "top", privkey |-> privkey, windows |-> windows,
     info |-> NoInfo, deadline |-> 0, wake |-> 0, sent |-> 0, log |-> ""]

\* The process runs as the server: there is no emitter.
ClientOff == [ClientStart("none", FALSE) EXCEPT !.pc = "off"]

\* What a round can end with: the request failed or timed out (Err), or a
\* response arrived with a status and a body that may fail to be read.
RoundOutcomes ==
    {[res |-> "err", status |-> "none", body |-> "none"]}
    \cup {[res |-> "ok", status |-> c, body |-> b] :
            c \in {"200", "400", "401"},
            b \in {"Heartbeat received", "other", "read_error"}}

\* The Windows build finds the screen locked and skips the round
\* (lines 33-43).
ClientSkipLocked ==
    /\ cl.pc = "top"
    /\ cl.windows
    /\ cl' = [cl EXCEPT !.pc = "sleep", !.wake = clock + HEARTBEAT_INTERVAL]
    /\ UNCHANGED <<clock, ticks, overflow_checks, public_key, clients, poisoned,
                   hb, st, reply>>

\* The emitter builds the heartbeat and posts it with a timeout
\* (lines 44-72).
ClientSend ==
    /\ cl.pc = "top"
    /\ cl' = [cl EXCEPT !.pc = "await",
                        !.info = ClientHeartBeat(cl.privkey, clock),
                        !.deadline = clock + TIMEOUT,
                        !.sent = cl.sent + 1]
    /\ UNCHANGED <<clock, ticks, overflow_checks, public_key, clients, poisoned,
                   hb, st, reply>>

\* A round that sends the request again as soon as it has failed.
ClientResultRetries(o) ==
    /\ cl.pc = "await"
    /\ clock <= cl.deadline
    /\ IF o.res = "err"
       THEN cl' = [cl EXCEPT !.pc = "top", !.log = "error"]
       ELSE IF o.status # "200"
       THEN cl' = [cl EXCEPT !.pc = "sleep", !.log = "error",
                             !.wake = clock + HEARTBEAT_INTERVAL]
       ELSE IF o.body = "read_error"
       THEN cl' = [cl EXCEPT !.pc = "exited", !.log = "error"]
       ELSE IF o.body = "Heartbeat received"
       THEN cl' = [cl EXCEPT !.pc = "sleep", !.log = "info",
                             !.wake = clock + HEARTBEAT_INTERVAL]
       ELSE cl' = [cl EXCEPT !.pc = "sleep", !.log = "error",
                             !.wake = clock + HEARTBEAT_INTERVAL]
    /\ UNCHANGED <<clock, ticks, overflow_checks, public_key, clients, poisoned,
                   hb, st, reply>>

\* The round ends with outcome o (lines 73-88): every outcome is logged
\* and followed by the sleep, except a failure to read the body of a
\* successful response, which `?` returns from client_main.
ClientResult(o) ==
    /\ cl.pc = "await"
    /\ clock <= cl.deadline
    /\ IF o.res = "err"
       THEN cl' = [cl EXCEPT !.pc = "sleep", !.log = "error",
                             !.wake = clock + HEARTBEAT_INTERVAL]
       ELSE IF o.status # "200"
       THEN cl' = [cl EXCEPT !.pc = "sleep", !.log = "error",
                             !.wake = clock + HEARTBEAT_INTERVAL]
       ELSE IF o.body = "read_error"
       THEN cl' = [cl EXCEPT !.pc = "exited", !.log = "error"]
       ELSE IF o.body = "Heartbeat received"
       THEN cl' = [cl EXCEPT !.pc = "sleep", !.log = "info",
                             !.wake = clock + HEARTBEAT_INTERVAL]
       ELSE cl' = [cl EXCEPT !.pc = "sleep", !.log = "error",
                             !.wake = clock + HEARTBEAT_INTERVAL]
    /\ UNCHANGED <<clock, ticks, overflow_checks, public_key, clients, poisoned,
                   hb, st, reply>>

\* The sleep of HEARTBEAT_INTERVAL is over (line 90).
ClientWake ==
    /\ cl.pc = "sleep"
    /\ clock >= cl.wake
    /\ cl' = [cl EXCEPT !.pc = "top"]
    /\ UNCHANGED <<clock, ticks, overflow_checks, public_key, clients, poisoned,
                   hb, st, reply>>

\* Time passes, but not beyond a timer of the emitter: the request's
\* timeout and the sleep fire when they are due.
ClientTick(d) ==
    /\ ticks < MaxClientTicks
    /\ cl.pc = "await" => clock + d <= cl.deadline
    /\ cl.pc = "sleep" => clock + d <= cl.wake
    /\ cl.pc \in {"await", "sleep"}
    /\ clock' = clock + d
    /\ ticks' = ticks + 1
    /\ UNCHANGED <<overflow_checks, public_key, clients, poisoned, hb, st, reply, cl>>

\* ------------------------------------------------------------ system
Init ==
    /\ clock = Epoch0
    /\ ticks = 0
    /\ overflow_checks \in BOOLEAN
    /\ public_key \in {"none", "k1"}
    /\ clients = {}
    /\ poisoned = FALSE
    /\ hb = [h \in Handlers |-> IdleHandler]
    /\ st = [pc |-> "idle", now |-> 0]
    /\ reply = NoReply
    /\ cl = ClientOff

\* Every request of the model when the clock reads c.
AllRequests(c) ==
    UNION {{HeartBeat(ts, sig) : sig \in SignatureFields(ts)} : ts \in Timestamps(c)}

\* The requests of a genuine client: unsigned, signed, and signed but stale.
GenuineRequests(c) ==
    {ClientHeartBeat("none", c), ClientHeartBeat("k1", c),
     ClientHeartBeat("k1", c - (TIMEOUT + 1))}

\* The server under concurrent requests of genuine clients.
Next ==
    \/ \E h \in Handlers, addr \in IPs, info \in GenuineRequests(clock) :
         HeartbeatCheck(h, addr, info)
    \/ \E h \in Handlers : HeartbeatRecord(h)
    \/ StatusReadClock
    \/ StatusScan
    \/ Deliver
    \/ \E t \in Instants : Tick(t)

Spec == Init /\ [][Next]_vars

\* heartbeat() with the freshness check before the signature stage.
HeartbeatSerialFreshFirst(h, addr, info) ==
    /\ reply = NoReply
    /\ hb[h].pc = "idle"
    /\ LET v == VerifyStage(info)
           f == FreshStage(clock, info.timestamp)
       IN  IF f # "pass"
           THEN /\ reply' = HeartbeatReply(addr, info, clock, f, "", -1)
                /\ UNCHANGED clients
           ELSE IF v # "pass"
           THEN /\ reply' = HeartbeatReply(addr, info, 0, v, "", -1)
                /\ UNCHANGED clients
           ELSE IF poisoned
           THEN /\ reply' = HeartbeatReply(addr, info, clock, "panic", "", -1)
                /\ UNCHANGED clients
           ELSE /\ clients' = Insert(clients, addr, clock)
                /\ reply' = HeartbeatReply(addr, info, clock, "200",
                                           "Heartbeat received", Replaced(clients, addr))
    /\ UNCHANGED <<clock, ticks, overflow_checks, public_key, poisoned, hb, st, cl>>

\* heartbeat() run from the request to the response with no other
\* handler in between (lines 105-142).
HeartbeatSerial(h, addr, info) ==
    /\ reply = NoReply
    /\ hb[h].pc = "idle"
    /\ LET v == VerifyStage(info)
           f == FreshStage(clock, info.timestamp)
       IN  IF v # "pass"
           THEN /\ reply' = HeartbeatReply(addr, info, 0, v, "", -1)
                /\ UNCHANGED clients
           ELSE IF f # "pass"
           THEN /\ reply' = HeartbeatReply(addr, info, clock, f, "", -1)
                /\ UNCHANGED clients
           ELSE IF poisoned
           THEN /\ reply' = HeartbeatReply(addr, info, clock, "panic", "", -1)
                /\ UNCHANGED clients
           ELSE /\ clients' = Insert(clients, addr, clock)
                /\ reply' = HeartbeatReply(addr, info, clock, "200",
                                           "Heartbeat received", Replaced(clients, addr))
    /\ UNCHANGED <<clock, ticks, overflow_checks, public_key, poisoned, hb, st, cl>>

\* The server handling one heartbeat at a time, of any content.
NextVerifier ==
    \/ \E addr \in IPs, info \in AllRequests(clock) : HeartbeatSerial(1, addr, info)
    \/ Deliver
    \/ \E t \in Instants : Tick(t)

SpecVerifier == Init /\ [][NextVerifier]_vars

\* The process runs as the emitter (main.rs lines 115-119).
InitClient ==
    /\ clock = Epoch0
    /\ ticks = 0
    /\ overflow_checks \in BOOLEAN
    /\ public_key = "none"
    /\ clients = {}
    /\ poisoned = FALSE
    /\ hb = [h \in Handlers |-> IdleHandler]
    /\ st = [pc |-> "idle", now |-> 0]
    /\ reply = NoReply
    /\ cl \in {ClientStart(k, w) : k \in {"none", "k1"}, w \in BOOLEAN}

\* The emitter against a server of which only the responses are known.
NextClient ==
    \/ ClientSkipLocked
    \/ ClientSend
    \/ \E o \in RoundOutcomes : ClientResult(o)
    \/ ClientWake
    \/ \E d \in ClientTickSteps : ClientTick(d)

SpecClient == InitClient /\ [][NextClient]_vars

\* The address the requests of the emitter come from.
ClientIP == "ip1"

\* The process runs as the emitter and another one as the server: every
\* round sends a heartbeat, made with a key the server accepts.
InitSystem ==
    /\ clock = Epoch0
    /\ ticks = 0
    /\ overflow_checks \in BOOLEAN
    /\ \E k \in {"none", "k1"} :
          /\ public_key \in {"none", k}
          /\ cl = ClientStart(k, FALSE)
    /\ clients = {}
    /\ poisoned = FALSE
    /\ hb = [h \in Handlers |-> IdleHandler]
    /\ st = [pc |-> "idle", now |-> 0]
    /\ reply = NoReply

\* The emitter's request reaches the server and handler h runs heartbeat()
\* on it up to the registry lock.
Arrive(h) ==
    /\ cl.pc = "await"
    /\ \A g \in Handlers : hb[g].pc = "idle"
    /\ HeartbeatCheck(h, ClientIP, cl.info)

\* The response reaches the emitter, whose read of the body may fail
\* (client.rs line 76); the connection of a handler that panicked is an Err.
Receive(b) ==
    /\ reply.kind = "heartbeat"
    /\ IF reply.status = "panic"
       THEN ClientResult([res |-> "err", status |-> "none", body |-> "none"])
       ELSE ClientResult([res |-> "ok", status |-> reply.status, body |-> b])

\* A response leaves the server; the emitter's once the emitter has it.
SystemDeliver ==
    /\ reply.kind = "heartbeat" => cl.pc # "await"
    /\ Deliver

\* The ages of the emitter's record at which the clock is read once the
\* emitter has exited: on both sides of each window.
SilenceAges ==
    {OFFLINE_TIMEOUT, OFFLINE_TIMEOUT + 1, ZOMBIE_TIMEOUT, ZOMBIE_TIMEOUT + 1}

\* The emitter has exited and the clock advances until its record has age a.
SilenceTick(a) ==
    /\ cl.pc = "exited"
    /\ reply = NoReply
    /\ \E r \in clients :
          /\ r.last_seen + a > clock
          /\ clock' = r.last_seen + a
    /\ UNCHANGED <<ticks, overflow_checks, public_key, clients, poisoned, hb, st,
                   reply, cl>>

\* One emitter, the server that receives its heartbeats, and status queries.
NextSystem ==
    \/ ClientSend
    \/ \E h \in Handlers : Arrive(h)
    \/ \E h \in Handlers : HeartbeatRecord(h)
    \/ \E b \in {"Heartbeat received", "read_error"} : Receive(b)
    \/ ClientWake
    \/ \E d \in ClientTickSteps : ClientTick(d)
    \/ StatusReadClock
    \/ StatusScan
    \/ SystemDeliver
    \/ \E a \in SilenceAges : SilenceTick(a)

SpecSystem == InitSystem /\ [][NextSystem]_vars

\* A registry that is never locked.
LockFreeAlways == TRUE

\* The registry Mutex is free.  status() holds it from its scan to the end
\* of its pruning (the guard of line 149 lives to line 157); heartbeat()
\* holds it for its insert, which is one step.
LockFree == st.pc # "prune"

\* heartbeat() waits for the lock, then inserts and answers (lines 139-141).
HeartbeatRecordLocked(h) ==
    /\ LockFree
    /\ HeartbeatRecord(h)

\* status() takes the lock and scans (lines 149-154): it answers ONLINE at
\* the first fresh record, or goes on to the pruning with the lock held.
StatusLockScan ==
    /\ reply = NoReply
    /\ st.pc = "lock"
    /\ IF poisoned
       THEN /\ reply' = StatusReply(st.now, "panic", "")
            /\ st' = [pc |-> "idle", now |-> 0]
            /\ UNCHANGED poisoned
       ELSE \/ /\ Fresh(clients, st.now) # {}
               /\ reply' = StatusReply(st.now, "200", "ONLINE")
               /\ st' = [pc |-> "idle", now |-> 0]
               /\ UNCHANGED poisoned
            \/ /\ ScanPanics(clients) # {}
               /\ reply' = StatusReply(st.now, "panic", "")
               /\ st' = [pc |-> "idle", now |-> 0]
               /\ poisoned' = TRUE
            \/ /\ Fresh(clients, st.now) = {}
               /\ ScanPanics(clients) = {}
               /\ st' = [pc |-> "prune", now |-> st.now]
               /\ UNCHANGED <<reply, poisoned>>
    /\ UNCHANGED <<clock, ticks, overflow_checks, public_key, clients, hb, cl>>

\* status() prunes, answers OFFLINE and drops the lock (lines 155-157).
StatusPrune ==
    /\ reply = NoReply
    /\ st.pc = "prune"
    /\ st' = [pc |-> "idle", now |-> 0]
    /\ IF RetainPanics(clients, st.now) # {}
       THEN /\ reply' = StatusReply(st.now, "panic", "")
            /\ poisoned' = TRUE
            /\ UNCHANGED clients
       ELSE /\ reply' = StatusReply(st.now, "200", "OFFLINE")
            /\ clients' = Retain(clients, st.now)
            /\ UNCHANGED poisoned
    /\ UNCHANGED <<clock, ticks, overflow_checks, public_key, hb, cl>>

\* The server with the critical section of status() in two steps.
NextLock ==
    \/ \E h \in Handlers, addr \in IPs, info \in GenuineRequests(clock) :
         HeartbeatCheck(h, addr, info)
    \/ \E h \in Handlers : HeartbeatRecordLocked(h)
    \/ StatusReadClock
    \/ StatusLockScan
    \/ StatusPrune
    \/ Deliver
    \/ \E t \in Instants : Tick(t)

SpecLock == Init /\ [][NextLock]_vars

\* ------------------------------------------------------------ claims
\* The step in which status() answers.
StatusAnswers == st.pc = "lock" /\ st'.pc = "idle"

\* The step in which heartbeat handler h inserts and answers.
RecordStep(h) == hb[h].pc = "lock" /\ hb'[h].pc = "idle"

\* The step in which a heartbeat handler answers (accepting or rejecting).
HeartbeatAnswers == reply = NoReply /\ reply'.kind = "heartbeat"

\* The records of identity ip in registry cl.
RecordsOf(reg, ip) == {r \in reg : r.identity = ip}

\* C1: a status query with clock reading now answers ONLINE if and only if
\* some record of the registry has last_seen + OFFLINE_TIMEOUT >= now, and
\* OFFLINE otherwise; on the empty registry it answers OFFLINE.
C1_StatusIffFresh ==
    [][StatusAnswers =>
        /\ reply'.status = "200"
        /\ reply'.body = IF \E r \in clients : r.last_seen + OFFLINE_TIMEOUT >= st.now
                         THEN "ONLINE" ELSE "OFFLINE"
        /\ (clients = {} => reply'.body = "OFFLINE")]_vars

\* C1 witness: ONLINE was answered on the boundary last_seen + 300 = now.
C1_Witness ==
    /\ reply.kind = "status"
    /\ reply.body = "ONLINE"
    /\ clients # {}
    /\ \A r \in clients : r.last_seen + OFFLINE_TIMEOUT <= reply.now

\* C2: the registry holds at most one record per identity, and recording
\* identity id at time t2 leaves exactly one record for id, with
\* last_seen = t2, and the records of every other identity as they were.
C2_OneRecordPerIdentity ==
    [][/\ \A ip \in IPs : Cardinality(RecordsOf(clients', ip)) <= 1
       /\ \A h \in Handlers :
            (RecordStep(h) /\ reply'.status = "200") =>
                /\ RecordsOf(clients', hb[h].addr) =
                       {[identity |-> hb[h].addr, last_seen |-> hb[h].now]}
                /\ \A ip \in IPs \ {hb[h].addr} :
                       RecordsOf(clients', ip) = RecordsOf(clients, ip)]_vars

\* C2 witness: a record of time t was replaced by one of time t2 > t while
\* another identity has a record.
C2_Witness ==
    /\ reply.kind = "heartbeat"
    /\ reply.status = "200"
    /\ reply.prev # -1
    /\ reply.prev < reply.now
    /\ [identity |-> reply.addr, last_seen |-> reply.now] \in clients
    /\ \E r \in clients : r.identity # reply.addr

\* C3 (as claimed): while the clock never goes backwards, the last_seen of
\* an identity never decreases, whatever the interleaving of the handlers.
C3_LastSeenNeverDecreases ==
    [][\A r \in clients, q \in clients' :
          r.identity = q.identity => r.last_seen <= q.last_seen]_vars

\* The signature of info was made over its timestamp with key k.
SignedBy(info, k) == k # "none" /\ info = ClientHeartBeat(k, info.timestamp)

\* The signature of info was made with key k over another timestamp.
SignedOtherTimestamp(info, k) ==
    /\ info.signature.some
    /\ \E ts \in Timestamps(clock) \cup {t + 1 : t \in Timestamps(clock)} :
          ts # info.timestamp /\ info.signature = ClientHeartBeat(k, ts).signature

\* C4: with a verification key configured, a heartbeat with no signature,
\* with a signature of an unrelated key, or with a valid signature of
\* another timestamp is answered 401 and nothing is recorded.
C4_BadSignatureUnauthorized ==
    [][(/\ HeartbeatAnswers
        /\ public_key # "none"
        /\ \/ ~reply'.info.signature.some
           \/ \E k \in Keys \ {public_key} : SignedBy(reply'.info, k)
           \/ SignedOtherTimestamp(reply'.info, public_key))
       => (reply'.status = "401" /\ clients' = clients)]_vars

\* C4 witness: a heartbeat signed with an unrelated key was answered 401
\* while the registry held a record.
C4_Witness ==
    /\ reply.kind = "heartbeat"
    /\ public_key = "k1"
    /\ reply.status = "401"
    /\ SignedBy(reply.info, "k2")
    /\ clients # {}

\* C5: a heartbeat that passes the signature stage (no key configured, or
\* a correct signature of its timestamp) and has now - timestamp > TIMEOUT
\* is answered 400 and is not recorded.
C5_StaleBadRequest ==
    [][(/\ HeartbeatAnswers
        /\ public_key = "none" \/ SignedBy(reply'.info, public_key)
        /\ clock - reply'.info.timestamp > TIMEOUT)
       => (reply'.status = "400" /\ clients' = clients)]_vars

\* C5 witness: a correctly signed heartbeat one second too old was refused.
C5_Witness ==
    /\ reply.kind = "heartbeat"
    /\ public_key = "k1"
    /\ SignedBy(reply.info, "k1")
    /\ reply.now - reply.info.timestamp = TIMEOUT + 1
    /\ reply.status = "400"

\* C6: a heartbeat built by the emitter with the key matching the
\* verifier's and checked at a time now with 0 <= now - timestamp <= TIMEOUT
\* is answered 200 "Heartbeat received", and the registry then maps the
\* caller's identity to now.
C6_RoundTripAccepted ==
    [][(/\ HeartbeatAnswers
        /\ SignedBy(reply'.info, public_key)
        /\ clock - reply'.info.timestamp \in 0..TIMEOUT)
       => (/\ reply'.status = "200"
           /\ reply'.body = "Heartbeat received"
           /\ RecordsOf(clients', reply'.addr) =
                  {[identity |-> reply'.addr, last_seen |-> clock]})]_vars

\* C6 witness: a signed heartbeat exactly TIMEOUT old was accepted and
\* recorded at the verifier's time.
C6_Witness ==
    /\ reply.kind = "heartbeat"
    /\ public_key = "k1"
    /\ SignedBy(reply.info, "k1")
    /\ reply.now - reply.info.timestamp = TIMEOUT
    /\ reply.status = "200"
    /\ [identity |-> reply.addr, last_seen |-> reply.now] \in clients

\* C7: with no verification key configured, a heartbeat with
\* 0 <= now - timestamp <= TIMEOUT is accepted and recorded whatever its
\* signature field holds.
C7_NoKeyAcceptsAnySignature ==
    [][(/\ HeartbeatAnswers
        /\ public_key = "none"
        /\ clock - reply'.info.timestamp \in 0..TIMEOUT)
       => (/\ reply'.status = "200"
           /\ reply'.body = "Heartbeat received"
           /\ RecordsOf(clients', reply'.addr) =
                  {[identity |-> reply'.addr, last_seen |-> clock]})]_vars

\* C7 witness: a heartbeat whose signature is not hex was accepted.
C7_Witness ==
    /\ reply.kind = "heartbeat"
    /\ public_key = "none"
    /\ \E i \in 1..Len(reply.info.signature.hex) :
          ~HexDecode(reply.info.signature.hex[i]).ok
    /\ reply.status = "200"
    /\ [identity |-> reply.addr, last_seen |-> reply.now] \in clients

\* C8 (as claimed): a heartbeat whose timestamp is later than the
\* verifier's clock passes the freshness check: when it also passes the
\* signature stage it is accepted.
C8_FutureTimestampPasses ==
    [][(/\ HeartbeatAnswers
        /\ public_key = "none" \/ SignedBy(reply'.info, public_key)
        /\ reply'.info.timestamp > clock)
       => reply'.status = "200"]_vars

\* C9 (as claimed): with a verification key configured, a heartbeat with a
\* signature that is not hex, or that has not the structure of a
\* signature, is answered 400 and the registry is unchanged.
C9_MalformedSignatureBadRequest ==
    [][(/\ HeartbeatAnswers
        /\ public_key # "none"
        /\ reply'.info.signature.some
        /\ \/ \E i \in 1..Len(reply'.info.signature.hex) :
                 ~HexDecode(reply'.info.signature.hex[i]).ok
           \/ Len(reply'.info.signature.hex) # 2)
       => (reply'.status = "400" /\ clients' = clients)]_vars

\* C10 (as claimed): no outcome of a heartbeat round makes client_main
\* return: every round is followed by the sleep of HEARTBEAT_INTERVAL.
C10_RoundNeverEndsLoop ==
    [][cl.pc = "await" /\ cl'.pc # "await" =>
          cl'.pc = "sleep" /\ cl'.wake = clock + HEARTBEAT_INTERVAL]_vars

\* C11: a heartbeat answered 401 or 400 leaves the registry as it was, and
\* the record of an identity is created or changed only by the step that
\* answers 200 to a heartbeat of that identity.
C11_RejectionLeavesRegistry ==
    [][/\ (HeartbeatAnswers /\ reply'.status \in {"400", "401"})
              => clients' = clients
       /\ \A ip \in IPs :
            (RecordsOf(clients', ip) # {}
             /\ RecordsOf(clients', ip) # RecordsOf(clients, ip))
              => (/\ reply'.kind = "heartbeat"
                  /\ reply'.status = "200"
                  /\ reply'.addr = ip)]_vars

\* C11 witness: a stale heartbeat of an identity that has a record was
\* answered 400 and the record still holds the earlier time.
C11_Witness ==
    /\ reply.kind = "heartbeat"
    /\ reply.status = "400"
    /\ \E r \in clients : r.identity = reply.addr /\ r.last_seen < reply.now
    /\ \E r \in clients : r.identity # reply.addr

\* C12: a status query that answers ONLINE leaves the registry unchanged,
\* whatever the age of its records: the registry changes in a status query
\* only when the answer is OFFLINE.
C12_OnlineLeavesRegistry ==
    [][StatusAnswers =>
        /\ reply'.body = "ONLINE" => clients' = clients
        /\ clients' # clients => reply'.body = "OFFLINE"]_vars

\* C12 witness: ONLINE was answered for one identity's fresh record while
\* the registry holds, and keeps, a record older than ZOMBIE_TIMEOUT.
C12_Witness ==
    /\ reply.kind = "status"
    /\ reply.body = "ONLINE"
    /\ \E r \in clients : reply.now - r.last_seen > ZOMBIE_TIMEOUT
    /\ \E r \in clients : r.last_seen + OFFLINE_TIMEOUT >= reply.now

\* C13: a status query with clock reading now that answers OFFLINE leaves
\* exactly the records with now - last_seen <= ZOMBIE_TIMEOUT, each with
\* its last_seen, and removes the records with now - last_seen >
\* ZOMBIE_TIMEOUT.
C13_OfflinePrunesZombies ==
    [][(StatusAnswers /\ reply'.body = "OFFLINE") =>
        /\ clients' = {r \in clients : st.now - r.last_seen <= ZOMBIE_TIMEOUT}
        /\ \A r \in clients \ clients' : st.now - r.last_seen > ZOMBIE_TIMEOUT]_vars

\* C13 witness: an OFFLINE answer pruned the registry and kept the record
\* that is exactly ZOMBIE_TIMEOUT old, alone.
C13_Witness ==
    /\ reply.kind = "status"
    /\ reply.body = "OFFLINE"
    /\ Cardinality(clients) = 1
    /\ \A r \in clients : reply.now - r.last_seen = ZOMBIE_TIMEOUT

\* C14: in the state a status query with clock reading now leaves, a
\* second query with the same clock reading (no record operation in
\* between) returns the same result and leaves the registry as it is.
C14_StatusIdempotent ==
    (reply.kind = "status" /\ reply.status = "200") =>
        /\ ~poisoned
        /\ StatusOutcomes(clients, reply.now) = {reply.body}
        /\ (IF reply.body = "OFFLINE" THEN Retain(clients, reply.now) ELSE clients)
               = clients

\* C14 witness: an OFFLINE answer left two records, neither fresh, one of
\* them exactly ZOMBIE_TIMEOUT old.
C14_Witness ==
    /\ reply.kind = "status"
    /\ reply.body = "OFFLINE"
    /\ Cardinality(clients) = 2
    /\ \E r \in clients : reply.now - r.last_seen = ZOMBIE_TIMEOUT

\* C15: with the single record of a client, last seen at t: a status query
\* whose clock reading now has now - t in 301..3600 answers OFFLINE and
\* keeps the record; a query with now - t >= 3601 answers OFFLINE and
\* leaves the registry empty.
C15_SilentClientExpires ==
    [][(StatusAnswers /\ Cardinality(clients) = 1) =>
        \A r \in clients :
          /\ (st.now - r.last_seen \in (OFFLINE_TIMEOUT + 1)..ZOMBIE_TIMEOUT)
                => (reply'.body = "OFFLINE" /\ clients' = clients)
          /\ (st.now - r.last_seen >= ZOMBIE_TIMEOUT + 1)
                => (reply'.body = "OFFLINE" /\ clients' = {})]_vars

\* C15 witness: the emitter sent a heartbeat that was accepted and exited;
\* a status query made 3601 s or more later answered OFFLINE and the
\* registry is empty.
C15_Witness ==
    /\ cl.pc = "exited"
    /\ cl.sent >= 1
    /\ reply.kind = "status"
    /\ reply.body = "OFFLINE"
    /\ reply.now - cl.info.timestamp >= ZOMBIE_TIMEOUT + 1
    /\ clients = {}

\* C16: the emitter posts one heartbeat at a time, from the head of its
\* loop only; a request that ended, whatever its outcome, is followed by
\* the sleep of HEARTBEAT_INTERVAL (or by the end of the emitter), never by
\* another request; and a request starts HEARTBEAT_INTERVAL or more after
\* the request before it ended.
C16_OneRequestPerCycle ==
    [][/\ cl'.sent # cl.sent =>
            /\ cl'.sent = cl.sent + 1
            /\ cl.pc = "top" /\ cl'.pc = "await"
            /\ cl.sent >= 1 =>
                  /\ clock >= cl.wake
                  /\ cl.wake >= (cl.deadline - TIMEOUT) + HEARTBEAT_INTERVAL
       /\ (cl.pc = "await" /\ cl'.pc # "await") =>
            \/ cl'.pc = "exited"
            \/ cl'.pc = "sleep" /\ cl'.wake = clock + HEARTBEAT_INTERVAL
       /\ (cl.pc = "sleep" /\ cl'.pc # "sleep") =>
            (cl'.pc = "top" /\ clock >= cl.wake)
       /\ (cl.pc # "top" /\ cl'.pc = "top") => cl.pc = "sleep"]_vars

\* C16 witness: a request failed after its timeout had run, and the next
\* request is in flight, sent HEARTBEAT_INTERVAL after the failure.
C16_Witness ==
    /\ cl.pc = "await"
    /\ cl.sent = 2
    /\ cl.log = "error"
    /\ cl.deadline - TIMEOUT = cl.wake
    /\ cl.wake = Epoch0 + TIMEOUT + HEARTBEAT_INTERVAL

\* C17: between the scan and the pruning of a status query no handler
\* records and the registry does not change; the pruning works on the
\* registry the scan saw, so that scan and pruning together are status()
\* run in one step at that point; and the pruning removes no record with
\* last_seen > the clock reading of the query.
C17_ScanAndPruneAtomic ==
    [][/\ st.pc = "prune" =>
            /\ \A h \in Handlers : ~RecordStep(h)
            /\ st'.pc = "prune" => clients' = clients
       /\ (st.pc = "prune" /\ st'.pc = "idle") =>
            /\ reply'.status = "200"
            /\ reply'.body \in StatusOutcomes(clients, st.now)
            /\ clients' = Retain(clients, st.now)
            /\ \A r \in clients \ clients' : r.last_seen <= st.now]_vars

\* C17 witness: a status query pruned and answered OFFLINE while a
\* heartbeat handler that had read a later clock value than the query was
\* waiting for the lock.
C17_Witness ==
    /\ reply.kind = "status"
    /\ reply.body = "OFFLINE"
    /\ clients # {}
    /\ \E h \in Handlers : hb[h].pc = "lock" /\ hb[h].now > reply.now

\* C18: with a verification key configured, a heartbeat that is stale
\* (now - timestamp > TIMEOUT) and has no signature, a signature of an
\* unrelated key or a signature of another timestamp is answered 401; and
\* the 400 of the freshness check (the answer that carries the handler's
\* clock reading) is given only to a heartbeat whose signature verified,
\* or when no key is configured.
C18_SignatureBeforeFreshness ==
    [][HeartbeatAnswers =>
        /\ (/\ public_key # "none"
            /\ clock - reply'.info.timestamp > TIMEOUT
            /\ \/ ~reply'.info.signature.some
               \/ \E k \in Keys \ {public_key} : SignedBy(reply'.info, k)
               \/ SignedOtherTimestamp(reply'.info, public_key))
              => reply'.status = "401"
        /\ (reply'.status = "400" /\ reply'.now = clock)
              => (public_key = "none" \/ SignedBy(reply'.info, public_key))]_vars

\* C18 witness: an unsigned heartbeat that is also stale was answered 401
\* by a server with a key.
C18_Witness ==
    /\ reply.kind = "heartbeat"
    /\ public_key = "k1"
    /\ ~reply.info.signature.some
    /\ clock - reply.info.timestamp > TIMEOUT
    /\ reply.status = "401"

\* C19: no status query panics, and a query that reaches the pruning (it
\* answers OFFLINE) finds last_seen < now in every record of the registry,
\* so that now - last_seen does not underflow, also while heartbeat
\* handlers hold later clock readings than the query.
C19_PruningNeverUnderflows ==
    [][StatusAnswers =>
        /\ reply'.status # "panic"
        /\ ~poisoned'
        /\ reply'.body = "OFFLINE" =>
              \A r \in clients : r.last_seen < st.now]_vars

\* C19 witness: a status query answered while the registry held a record
\* written with a later clock reading than the query's.
C19_Witness ==
    /\ reply.kind = "status"
    /\ reply.status = "200"
    /\ \E r \in clients : r.last_seen > reply.now

\* The emitter is in its loop.
EmitterRuns == cl.pc \in {"top", "await", "sleep"}

====
